---- MODULE Spec2Model ----
(***************************************************************************)
(* Product CRUD service over a MySQL connection pool.                      *)
(*                                                                         *)
(* Two builds of the service are modelled: src/server.js (pool created     *)
(* with a default database, POST/PUT validate the body) and                *)
(* src/unnamed/part_000 (pool created without a database, every product    *)
(* handler issues USE and then its statement, no validation).  variant     *)
(* says which build is running.                                            *)
(*                                                                         *)
(* A handler is split at its awaits: the synchronous prefix up to the      *)
(* first pool.query, the database executing a statement, and the           *)
(* continuation that runs when the result of pool.query is delivered.      *)
(***************************************************************************)
EXTENDS Integers, Sequences, FiniteSets, TLC

\* ------------------------------------------------------------------ bounds
\* Concurrent HTTP requests the model follows at once.
MaxReq == 3
\* Ids a client names in GET/PUT/DELETE /produtos/{id}.
MaxId == 2
\* Requests that arrive in one behaviour.
MaxArrivals == 3
\* Requests that arrive in one behaviour of the USE scenario (UseSpec).
MaxUseArrivals == 4
\* Pool capacity.  The source sets connectionLimit: 10 (server.js:19,
\* part_000:17); the model scales it so that MaxReq concurrent requests
\* saturate the pool and the queue is exercised.
connectionLimit == 2

\* ------------------------------------------------------- pool configuration
waitForConnections == TRUE
queueLimit == 0

\* --------------------------------------------------------------- constants
Variants == {"server", "part000"}
Slots == 1..MaxReq
Ids == 1..MaxId

\* A price as the client sends it: absent/null, or a number in thousandths.
NullPreco == [null |-> TRUE, milli |-> 0]
Num(m) == [null |-> FALSE, milli |-> m]
\* A string field as the client sends it: Missing stands for undefined/null.
Missing == "<undefined>"

NoBody == [Nome |-> Missing, Descricao |-> Missing, Preco |-> NullPreco]
\* Request bodies of POST/PUT: two complete ones (the second with a price of
\* three decimals), and one for each way a field can be missing or empty.
Bodies ==
  { [Nome |-> "Caneta", Descricao |-> "Azul", Preco |-> Num(2500)],
    [Nome |-> "Lapis", Descricao |-> "Preto", Preco |-> Num(2555)],
    [Nome |-> "", Descricao |-> "Azul", Preco |-> Num(2500)],
    [Nome |-> "Caneta", Descricao |-> Missing, Preco |-> Num(2500)],
    [Nome |-> "Caneta", Descricao |-> "Azul", Preco |-> NullPreco] }

\* A stored row: Preco is DECIMAL(10,2), kept in hundredths.
NoRow == [Id |-> 0, Nome |-> "", Descricao |-> "", Preco |-> 0]
EmptyTable == [i \in {} |-> NoRow]

VARIABLES
  variant,      \* which build runs
  dbExists,     \* the configured database exists on the server
  tableExists,  \* the produto table exists in it
  rows,         \* produto: Id -> row
  autoInc,      \* produto's AUTO_INCREMENT counter
  pool,         \* the mysql2 pool
  req,          \* the requests being handled, by slot
  arrivals,     \* requests received so far
  budget,       \* requests the behaviour may receive (fixed at Init)
  lastResp,     \* the response sent by the latest step (NoResp: none)
  issued,       \* ids returned by 201 responses, in order
  del200,       \* Id -> number of DELETE 200 responses
  submitted,    \* Id -> body of the INSERT that made the row, until changed
  nins,         \* INSERT statements that succeeded
  ndel          \* DELETE statements that removed a row

vars == <<variant, dbExists, tableExists, rows, autoInc, pool, req, arrivals,
          budget, lastResp, issued, del200, submitted, nins, ndel>>
dbvars == <<dbExists, tableExists, rows, autoInc>>
histvars == <<issued, del200, submitted, nins, ndel>>

\* ------------------------------------------------------------- validation
\* JavaScript's !x for the modelled field values: undefined, null and "".
Falsy(s) == s = Missing \/ s = ""

\* if (!Nome || !Descricao || Preco == null) return 400
ValidBody(b) == ~(Falsy(b.Nome) \/ Falsy(b.Descricao) \/ b.Preco.null)

\* The pool was created with database: DB_NAME.
HasDefaultDatabase == variant = "server"

\* ------------------------------------------------------------------ results
OkRes ==
  [err |-> "", affectedRows |-> 0, insertId |-> 0, rs |-> <<>>,
   found |-> FALSE, mutated |-> FALSE, nins |-> 0, ndel |-> 0]
ErrRes(code) == [OkRes EXCEPT !.err = code]

\* A DECIMAL(10,2) that drops the third decimal instead of rounding.
DecimalTruncate(milli) == milli \div 10

\* DECIMAL(10,2): an exact numeric literal is rounded half away from zero.
DecimalRound(milli) == (milli + 5) \div 10

RECURSIVE RowsAsSeq(_, _)
\* The rows of t with Id in S, in primary-key order.
RowsAsSeq(t, S) ==
  IF S = {} THEN <<>>
  ELSE LET m == CHOOSE i \in S : \A j \in S : i <= j
       IN <<t[m]>> \o RowsAsSeq(t, S \ {m})

\* What a statement does: its result and the database state after it.
Out(res, db, tbl, rws, ai, sel) ==
  [res |-> res, dbExists |-> db, tableExists |-> tbl, rows |-> rws,
   autoInc |-> ai, sel |-> sel]
Same(res, sel) == Out(res, dbExists, tableExists, rows, autoInc, sel)

\* CREATE DATABASE IF NOT EXISTS; USE; CREATE TABLE IF NOT EXISTS produto
SqlInit == Out(OkRes, TRUE, TRUE, rows, autoInc, TRUE)

\* USE `DB_NAME`
SqlUse(sel) ==
  IF dbExists THEN Same(OkRes, TRUE) ELSE Same(ErrRes("ER_BAD_DB_ERROR"), sel)

\* A product statement needs a selected database and the table.
TableError(sel) ==
  IF ~sel THEN "ER_NO_DB_ERROR"
  ELSE IF ~tableExists THEN "ER_NO_SUCH_TABLE"
  ELSE ""

\* A SELECT that stops after the first row.
SqlSelectFirst(sel) ==
  LET all == RowsAsSeq(rows, DOMAIN rows)
  IN Same([OkRes EXCEPT !.rs = IF all = <<>> THEN <<>> ELSE <<all[1]>>], sel)

\* SELECT * FROM produto
SqlSelectAll(sel) ==
  Same([OkRes EXCEPT !.rs = RowsAsSeq(rows, DOMAIN rows)], sel)

\* SELECT * FROM produto WHERE Id = ?
SqlSelectById(id, sel) ==
  Same([OkRes EXCEPT !.rs = RowsAsSeq(rows, DOMAIN rows \cap {id})], sel)

\* A bound undefined/null parameter is NULL; the columns are NOT NULL.
HasNull(b) == b.Nome = Missing \/ b.Descricao = Missing \/ b.Preco.null

Stored(id, b) ==
  [Id |-> id, Nome |-> b.Nome, Descricao |-> b.Descricao,
   Preco |-> DecimalRound(b.Preco.milli)]

Extend(t, id, row) ==
  [i \in DOMAIN t \cup {id} |-> IF i = id THEN row ELSE t[i]]

\* An INSERT that takes the lowest Id not in the table.
SqlInsertReuse(b, sel) ==
  IF HasNull(b) THEN Same(ErrRes("ER_BAD_NULL_ERROR"), sel)
  ELSE LET id == CHOOSE i \in 1..(Cardinality(DOMAIN rows) + 1) :
                   i \notin DOMAIN rows /\ \A j \in 1..(i - 1) : j \in DOMAIN rows
       IN Out([OkRes EXCEPT !.affectedRows = 1, !.insertId = id],
              dbExists, tableExists, Extend(rows, id, Stored(id, b)),
              autoInc, sel)

\* INSERT INTO produto (Nome, Descricao, Preco) VALUES (?, ?, ?)
SqlInsert(b, sel) ==
  IF HasNull(b) THEN Same(ErrRes("ER_BAD_NULL_ERROR"), sel)
  ELSE Out([OkRes EXCEPT !.affectedRows = 1, !.insertId = autoInc],
           dbExists, tableExists, Extend(rows, autoInc, Stored(autoInc, b)),
           autoInc + 1, sel)

\* An UPDATE that reports the rows changed, not the rows matched.
SqlUpdateChanged(id, b, sel) ==
  IF HasNull(b) THEN Same(ErrRes("ER_BAD_NULL_ERROR"), sel)
  ELSE IF id \notin DOMAIN rows THEN Same(OkRes, sel)
  ELSE Out([OkRes EXCEPT
              !.affectedRows = IF rows[id] = Stored(id, b) THEN 0 ELSE 1],
           dbExists, tableExists, [rows EXCEPT ![id] = Stored(id, b)],
           autoInc, sel)

\* UPDATE produto SET Nome = ?, Descricao = ?, Preco = ? WHERE Id = ?
\* (mysql2 connects with FOUND_ROWS: affectedRows counts the rows matched)
SqlUpdate(id, b, sel) ==
  IF HasNull(b) THEN Same(ErrRes("ER_BAD_NULL_ERROR"), sel)
  ELSE IF id \notin DOMAIN rows THEN Same(OkRes, sel)
  ELSE Out([OkRes EXCEPT !.affectedRows = 1],
           dbExists, tableExists, [rows EXCEPT ![id] = Stored(id, b)],
           autoInc, sel)

\* DELETE FROM produto WHERE Id = ?
SqlDelete(id, sel) ==
  IF id \notin DOMAIN rows THEN Same(OkRes, sel)
  ELSE Out([OkRes EXCEPT !.affectedRows = 1],
           dbExists, tableExists, [i \in DOMAIN rows \ {id} |-> rows[i]],
           autoInc, sel)

\* The product statement of a handler.
Statement(op, id, b, sel) ==
  IF TableError(sel) # "" THEN Same(ErrRes(TableError(sel)), sel)
  ELSE CASE op = "list" -> SqlSelectAll(sel)
         [] op = "get" -> SqlSelectById(id, sel)
         [] op = "post" -> SqlInsert(b, sel)
         [] op = "put" -> SqlUpdate(id, b, sel)
         [] OTHER -> SqlDelete(id, sel)

\* What the server does with the query q of a request, on a connection
\* whose selected-database flag is sel.
Run(q, sel) ==
  CASE q.sql = "init" -> SqlInit
    [] q.sql = "use" -> SqlUse(sel)
    [] OTHER -> Statement(q.op, q.id, q.body, sel)

\* --------------------------------------------------------------------- pool
\* getConnection: a free connection (most recently released first), else a
\* new one while fewer than connectionLimit exist, else the request waits.
\* A new connection of a pool with a default database fails its handshake
\* when that database does not exist.
Acquire(P, r) ==
  IF P.free # <<>> THEN
    [pool |-> [P EXCEPT !.free = SubSeq(@, 1, Len(@) - 1)],
     conn |-> P.free[Len(P.free)], how |-> "run"]
  ELSE IF P.n < connectionLimit THEN
    IF HasDefaultDatabase /\ ~dbExists
    THEN [pool |-> P, conn |-> 0, how |-> "ER_BAD_DB_ERROR"]
    ELSE [pool |-> [P EXCEPT !.n = @ + 1, !.db[P.n + 1] = HasDefaultDatabase],
          conn |-> P.n + 1, how |-> "run"]
  ELSE IF ~waitForConnections
    THEN [pool |-> P, conn |-> 0, how |-> "POOL_NOCONNECTIONS"]
  ELSE IF queueLimit > 0 /\ Len(P.queue) >= queueLimit
    THEN [pool |-> P, conn |-> 0, how |-> "POOL_ENQUEUELIMIT"]
  ELSE [pool |-> [P EXCEPT !.queue = Append(@, r)], conn |-> 0, how |-> "wait"]

\* A release that never serves the queue.
ReleaseNoHandoff(P, c) ==
  [pool |-> [P EXCEPT !.free = Append(@, c)], to |-> 0]

\* releaseConnection: the connection goes to the request at the head of the
\* queue, or back to the free list.
Release(P, c) ==
  IF P.queue # <<>>
  THEN [pool |-> [P EXCEPT !.queue = Tail(@)], to |-> Head(P.queue)]
  ELSE [pool |-> [P EXCEPT !.free = Append(@, c)], to |-> 0]

\* ----------------------------------------------------------------- requests
FreeSlot ==
  [pc |-> "free", op |-> "none", id |-> 0, body |-> NoBody, sql |-> "none",
   conn |-> 0, res |-> OkRes, nq |-> 0, delSeen |-> FALSE]

\* The request after calling pool.query(sql), given what getConnection did.
Issue(q, acq, sql) ==
  IF acq.how = "run"
  THEN [q EXCEPT !.pc = "run", !.sql = sql, !.conn = acq.conn, !.nq = @ + 1]
  ELSE IF acq.how = "wait"
  THEN [q EXCEPT !.pc = "wait", !.sql = sql, !.conn = 0, !.nq = @ + 1]
  ELSE [q EXCEPT !.pc = "ret", !.sql = sql, !.conn = 0, !.nq = @ + 1,
                 !.res = ErrRes(acq.how)]

NoResp ==
  [op |-> "none", id |-> 0, body |-> NoBody, sent |-> <<>>, error |-> "",
   err |-> "",
   insertId |-> 0, rs |-> <<>>, nq |-> 0, sql |-> "none", found |-> FALSE,
   mutated |-> FALSE, delSeen |-> FALSE, nins |-> 0, ndel |-> 0]

\* The lowest slot not in use.
NextSlot == CHOOSE r \in Slots : req[r].pc = "free" /\ \A s \in 1..(r - 1) : req[s].pc # "free"

CanArrive == arrivals < budget /\ \E r \in Slots : req[r].pc = "free"

\* A handler's synchronous prefix ending in its first pool.query(sql).
Begin(op, id, body, sql) ==
  /\ CanArrive
  /\ LET r == NextSlot
         acq == Acquire(pool, r)
         q == [FreeSlot EXCEPT !.op = op, !.id = id, !.body = body,
                               !.delSeen = (id \in Ids /\ del200[id] > 0)]
     IN /\ pool' = acq.pool
        /\ req' = [req EXCEPT ![r] = Issue(q, acq, sql)]
  /\ arrivals' = arrivals + 1
  /\ lastResp' = NoResp
  /\ UNCHANGED <<variant, budget, dbvars, histvars>>

\* return res.status(400).json(...): the handler ends before any query.
Reject(op, id, body) ==
  /\ CanArrive
  /\ arrivals' = arrivals + 1
  /\ lastResp' = [NoResp EXCEPT !.op = op, !.id = id, !.body = body,
                                !.sent = <<400>>,
                                !.error = "Campos obrigatorios",
                                !.delSeen = (id \in Ids /\ del200[id] > 0)]
  /\ UNCHANGED <<variant, budget, dbvars, pool, req, histvars>>

\* ------------------------------------------------------ server.js handlers
ServerInitDb == variant = "server" /\ Begin("init", 0, NoBody, "init")

ServerGetProdutos == variant = "server" /\ Begin("list", 0, NoBody, "stmt")

ServerGetProduto(id) == variant = "server" /\ Begin("get", id, NoBody, "stmt")

ServerPostProdutos(body) ==
  /\ variant = "server"
  /\ IF ValidBody(body) THEN Begin("post", 0, body, "stmt")
     ELSE Reject("post", 0, body)

ServerPutProduto(id, body) ==
  /\ variant = "server"
  /\ IF ValidBody(body) THEN Begin("put", id, body, "stmt")
     ELSE Reject("put", id, body)

ServerDeleteProduto(id) == variant = "server" /\ Begin("delete", id, NoBody, "stmt")

\* ------------------------------------------------------- part_000 handlers
PartInitDb == variant = "part000" /\ Begin("init", 0, NoBody, "init")

PartGetProdutos == variant = "part000" /\ Begin("list", 0, NoBody, "use")

PartGetProduto(id) == variant = "part000" /\ Begin("get", id, NoBody, "use")

PartPostProdutos(body) == variant = "part000" /\ Begin("post", 0, body, "use")

PartPutProduto(id, body) == variant = "part000" /\ Begin("put", id, body, "use")

PartDeleteProduto(id) == variant = "part000" /\ Begin("delete", id, NoBody, "use")

\* ----------------------------------------------------------------- database
\* The server executes the statement in flight for request r.
Execute(r) ==
  /\ req[r].pc = "run"
  /\ LET q == req[r]
         out == Run(q, pool.db[q.conn])
         ok == out.res.err = ""
         res == [out.res EXCEPT
                   !.found = q.id \in DOMAIN rows,
                   !.mutated = <<out.dbExists, out.tableExists, out.rows, out.autoInc>>
                               # <<dbExists, tableExists, rows, autoInc>>,
                   !.nins = nins, !.ndel = ndel]
         inserted == ok /\ q.sql = "stmt" /\ q.op = "post"
         changed == ok /\ q.sql = "stmt" /\ q.op \in {"put", "delete"}
                       /\ out.res.affectedRows > 0
     IN /\ dbExists' = out.dbExists
        /\ tableExists' = out.tableExists
        /\ rows' = out.rows
        /\ autoInc' = out.autoInc
        /\ pool' = [pool EXCEPT !.db[q.conn] = out.sel]
        /\ req' = [req EXCEPT ![r].pc = "ret", ![r].res = res]
        /\ nins' = IF inserted THEN nins + 1 ELSE nins
        /\ ndel' = IF changed /\ q.op = "delete" THEN ndel + 1 ELSE ndel
        /\ submitted' =
             IF inserted THEN Extend(submitted, out.res.insertId, q.body)
             ELSE IF changed /\ q.id \in DOMAIN submitted
             THEN [submitted EXCEPT ![q.id] = NoBody]
             ELSE submitted
  /\ lastResp' = NoResp
  /\ UNCHANGED <<variant, budget, arrivals, issued, del200>>

\* ------------------------------------------------- handlers' continuations
\* The res.* calls each handler makes for a successful result, as the
\* sequence of status codes sent.
RespondInit(res) == <<200>>

RespondList(res) == <<200>>

RespondGet(res) == IF Len(res.rs) = 0 THEN <<404>> ELSE <<200>>

RespondPost(res) == <<201>>

RespondPut(res) == IF res.affectedRows = 0 THEN <<404>> ELSE <<200>>

\* A DELETE handler without its affectedRows test.
RespondDeleteNoCheck(res) == <<200>>

RespondDelete(res) == IF res.affectedRows = 0 THEN <<404>> ELSE <<200>>

\* A catch block that also falls through to the success response.
RespondFallThrough(q) ==
  IF q.res.err # "" THEN <<500, 200>>
  ELSE CASE q.op = "init" -> RespondInit(q.res)
         [] q.op = "list" -> RespondList(q.res)
         [] q.op = "get" -> RespondGet(q.res)
         [] q.op = "post" -> RespondPost(q.res)
         [] q.op = "put" -> RespondPut(q.res)
         [] OTHER -> RespondDelete(q.res)

\* try { ... } catch (err) { res.status(500).json({ error: err.message }) }
Respond(q) ==
  IF q.res.err # "" THEN <<500>>
  ELSE CASE q.op = "init" -> RespondInit(q.res)
         [] q.op = "list" -> RespondList(q.res)
         [] q.op = "get" -> RespondGet(q.res)
         [] q.op = "post" -> RespondPost(q.res)
         [] q.op = "put" -> RespondPut(q.res)
         [] OTHER -> RespondDelete(q.res)

\* The error member of the JSON body: err.message in the catch block, the
\* fixed text of a 404, nothing otherwise.
ErrorBody(q) ==
  IF q.res.err # "" THEN q.res.err
  ELSE IF 404 \in {Respond(q)[i] : i \in DOMAIN Respond(q)}
  THEN "Produto nao encontrado"
  ELSE ""

\* The response of request q as the client sees it, with what the database
\* reported for its last query (err, found, mutated, nins, ndel).
Response(q) ==
  [op |-> q.op, id |-> q.id, body |-> q.body, sent |-> Respond(q),
   error |-> ErrorBody(q), err |-> q.res.err, insertId |-> q.res.insertId, rs |-> q.res.rs,
   nq |-> q.nq, sql |-> q.sql, found |-> q.res.found,
   mutated |-> q.res.mutated, delSeen |-> q.delSeen,
   nins |-> q.res.nins, ndel |-> q.res.ndel]

\* The pool's part of a query's completion: the connection is released, and
\* a waiting request, if any, starts its query on it.
Completed(r) ==
  LET q == req[r]
      rel == IF q.conn > 0 THEN Release(pool, q.conn) ELSE [pool |-> pool, to |-> 0]
  IN [pool |-> rel.pool,
      req |-> IF rel.to > 0
              THEN [req EXCEPT ![rel.to].pc = "run", ![rel.to].conn = q.conn]
              ELSE req]

\* The handler's last step: the awaited query settled (the USE failed, or
\* the handler's statement succeeded or failed) and the response is sent.
OnResult(r) ==
  /\ req[r].pc = "ret"
  /\ req[r].sql # "use" \/ req[r].res.err # ""
  /\ LET q == req[r]
         done == Completed(r)
         resp == Response(q)
     IN /\ pool' = done.pool
        /\ req' = [done.req EXCEPT ![r] = FreeSlot]
        /\ lastResp' = resp
        /\ issued' = IF q.op = "post" /\ 201 \in {resp.sent[i] : i \in DOMAIN resp.sent}
                     THEN Append(issued, resp.insertId) ELSE issued
        /\ del200' = IF q.op = "delete" /\ resp.sent = <<200>> /\ q.id \in Ids
                     THEN [del200 EXCEPT ![q.id] = @ + 1] ELSE del200
  /\ UNCHANGED <<variant, budget, dbvars, arrivals, submitted, nins, ndel>>

\* part_000: await pool.query(USE) resolved; the handler calls pool.query
\* again with its statement.
PartAfterUse(r) ==
  /\ req[r].pc = "ret"
  /\ req[r].sql = "use" /\ req[r].res.err = ""
  /\ LET done == Completed(r)
         acq == Acquire(done.pool, r)
     IN /\ pool' = acq.pool
        /\ req' = [done.req EXCEPT ![r] = Issue(req[r], acq, "stmt")]
  /\ lastResp' = NoResp
  /\ UNCHANGED <<variant, budget, dbvars, arrivals, histvars>>

\* ------------------------------------------------------------ specification
Init ==
  /\ variant \in Variants
  /\ dbExists \in BOOLEAN
  /\ tableExists \in {FALSE, dbExists}
  /\ rows = EmptyTable
  /\ autoInc = 1
  /\ pool = [n |-> 0, free |-> <<>>, queue |-> <<>>,
             db |-> [c \in 1..connectionLimit |-> FALSE]]
  /\ req = [r \in Slots |-> FreeSlot]
  /\ arrivals = 0
  /\ budget = MaxArrivals
  /\ lastResp = NoResp
  /\ issued = <<>>
  /\ del200 = [i \in Ids |-> 0]
  /\ submitted = [i \in {} |-> NoBody]
  /\ nins = 0
  /\ ndel = 0

Next ==
  \/ ServerInitDb
  \/ ServerGetProdutos
  \/ \E id \in Ids : ServerGetProduto(id)
  \/ \E body \in Bodies : ServerPostProdutos(body)
  \/ \E id \in Ids, body \in Bodies : ServerPutProduto(id, body)
  \/ \E id \in Ids : ServerDeleteProduto(id)
  \/ PartInitDb
  \/ PartGetProdutos
  \/ \E id \in Ids : PartGetProduto(id)
  \/ \E body \in Bodies : PartPostProdutos(body)
  \/ \E id \in Ids, body \in Bodies : PartPutProduto(id, body)
  \/ \E id \in Ids : PartDeleteProduto(id)
  \/ \E r \in Slots : Execute(r)
  \/ \E r \in Slots : OnResult(r)
  \/ \E r \in Slots : PartAfterUse(r)

Spec == Init /\ [][Next]_vars

\* The USE scenario: the part_000 build started before the database exists,
\* receiving only POST /init-db and GET /produtos.
UseInit ==
  /\ variant = "part000"
  /\ dbExists = FALSE
  /\ tableExists = FALSE
  /\ rows = EmptyTable
  /\ autoInc = 1
  /\ pool = [n |-> 0, free |-> <<>>, queue |-> <<>>,
             db |-> [c \in 1..connectionLimit |-> FALSE]]
  /\ req = [r \in Slots |-> FreeSlot]
  /\ arrivals = 0
  /\ budget = MaxUseArrivals
  /\ lastResp = NoResp
  /\ issued = <<>>
  /\ del200 = [i \in Ids |-> 0]
  /\ submitted = [i \in {} |-> NoBody]
  /\ nins = 0
  /\ ndel = 0

UseNext ==
  \/ PartInitDb
  \/ PartGetProdutos
  \/ \E r \in Slots : Execute(r)
  \/ \E r \in Slots : OnResult(r)
  \/ \E r \in Slots : PartAfterUse(r)

UseSpec == UseInit /\ [][UseNext]_vars

\* The pool scenario: every handler of both builds, with the request data
\* narrowed to one id, one valid body and one invalid body, which is all the
\* pool can tell apart.  The database answers every statement in flight and
\* the event loop runs every continuation that is ready.
PoolIds == {1}
PoolBodies ==
  { [Nome |-> "Caneta", Descricao |-> "Azul", Preco |-> Num(2500)],
    [Nome |-> "", Descricao |-> "Azul", Preco |-> Num(2500)] }

PoolNext ==
  \/ ServerInitDb
  \/ ServerGetProdutos
  \/ \E id \in PoolIds : ServerGetProduto(id)
  \/ \E body \in PoolBodies : ServerPostProdutos(body)
  \/ \E id \in PoolIds, body \in PoolBodies : ServerPutProduto(id, body)
  \/ \E id \in PoolIds : ServerDeleteProduto(id)
  \/ PartInitDb
  \/ PartGetProdutos
  \/ \E id \in PoolIds : PartGetProduto(id)
  \/ \E body \in PoolBodies : PartPostProdutos(body)
  \/ \E id \in PoolIds, body \in PoolBodies : PartPutProduto(id, body)
  \/ \E id \in PoolIds : PartDeleteProduto(id)
  \/ \E r \in Slots : Execute(r)
  \/ \E r \in Slots : OnResult(r)
  \/ \E r \in Slots : PartAfterUse(r)

PoolSpec ==
  /\ Init
  /\ [][PoolNext]_vars
  /\ \A r \in Slots : WF_vars(Execute(r))
  /\ \A r \in Slots : WF_vars(OnResult(r))
  /\ \A r \in Slots : WF_vars(PartAfterUse(r))

\* ------------------------------------------------------------------ claims
Codes(resp) == {resp.sent[i] : i \in DOMAIN resp.sent}

\* A body the specification calls invalid: Nome or Descricao missing or
\* empty, or Preco absent/null.
Invalid(b) ==
  \/ b.Nome \in {Missing, ""}
  \/ b.Descricao \in {Missing, ""}
  \/ b.Preco.null

\* C1: every POST /produtos and PUT /produtos/{id} whose body is invalid is
\* answered 400 without any query and without any change to the table, in
\* both builds.
C1_InvalidRejected ==
  (lastResp.op \in {"post", "put"} /\ Invalid(lastResp.body))
    => /\ lastResp.sent = <<400>>
       /\ lastResp.nq = 0
       /\ ~lastResp.mutated

Distinct(seq) == \A i, j \in DOMAIN seq : i # j => seq[i] # seq[j]

\* C2: the ids returned by 201 responses are positive and pairwise distinct,
\* whatever was deleted in between, and a Create with its three fields
\* present whose query succeeds is answered 201 with such an id.
C2_FreshPositiveIds ==
  /\ \A i \in DOMAIN issued : issued[i] > 0
  /\ Distinct(issued)
  /\ (lastResp.op = "post" /\ ~Invalid(lastResp.body) /\ lastResp.err = "")
       => /\ lastResp.sent = <<201>>
          /\ issued # <<>>
          /\ lastResp.insertId = issued[Len(issued)]

\* A second Create answered 201 after the row of the first was deleted.
C2_Witness ==
  /\ lastResp.op = "post"
  /\ lastResp.sent = <<201>>
  /\ Len(issued) = 2
  /\ ndel = 1
  /\ DOMAIN rows = {lastResp.insertId}

\* The row a GetById answered, and the body of the Create that made it,
\* when no Update or Delete of that id has taken effect.
GotCreated ==
  /\ lastResp.op = "get"
  /\ lastResp.sent = <<200>>
  /\ lastResp.id \in DOMAIN submitted
  /\ submitted[lastResp.id] # NoBody

\* C3 as stated: the product returned has the Id asked for and exactly the
\* Nome, Descricao and Preco that were submitted.
C3_ExactFields ==
  GotCreated =>
    LET row == lastResp.rs[1]
        b == submitted[lastResp.id]
    IN /\ Len(lastResp.rs) = 1
       /\ row.Id = lastResp.id
       /\ row.Nome = b.Nome
       /\ row.Descricao = b.Descricao
       /\ row.Preco * 10 = b.Preco.milli

\* C3 amended: a GetById of an existing id whose query succeeds is answered
\* 200; the product returned has the Id asked for, the Nome and Descricao
\* submitted, and the submitted Preco rounded half up to two decimals.
C3_RoundedFields ==
  /\ (lastResp.op = "get" /\ lastResp.err = "")
       => (lastResp.sent = <<200>> <=> lastResp.found)
  /\ GotCreated =>
       LET row == lastResp.rs[1]
           b == submitted[lastResp.id]
       IN /\ Len(lastResp.rs) = 1
          /\ row.Id = lastResp.id
          /\ row.Nome = b.Nome
          /\ row.Descricao = b.Descricao
          /\ row.Preco * 10 - 5 <= b.Preco.milli
          /\ b.Preco.milli <= row.Preco * 10 + 4

\* A GetById answered with a row whose price was submitted with three
\* decimals.
C3_Witness ==
  /\ GotCreated
  /\ submitted[lastResp.id].Preco.milli = 2555

\* The row an UPDATE with body b leaves under id.
Overwritten(id, b) ==
  [Id |-> id, Nome |-> b.Nome, Descricao |-> b.Descricao,
   Preco |-> (b.Preco.milli + 5) \div 10]

\* The UPDATE statement of request r takes effect in this step.
UpdateRuns(r) ==
  /\ req[r].pc = "run" /\ req[r].sql = "stmt" /\ req[r].op = "put"
  /\ req'[r].pc = "ret" /\ req'[r].res.err = ""

\* C4: an Update with valid fields whose query succeeds is answered 404
\* exactly when no row has the id as its statement runs, and then the table
\* is unchanged; otherwise it is answered 200, the row's three fields are
\* overwritten together, its Id is kept and every other row is unchanged.
C4_UpdateFrame ==
  /\ []((lastResp.op = "put" /\ ~Invalid(lastResp.body) /\ lastResp.err = "")
          => /\ lastResp.sent = <<404>> <=> ~lastResp.found
             /\ lastResp.sent = <<200>> <=> lastResp.found
             /\ ~lastResp.found => ~lastResp.mutated)
  /\ [][\A r \in Slots : UpdateRuns(r) =>
          /\ autoInc' = autoInc
          /\ DOMAIN rows' = DOMAIN rows
          /\ \A i \in DOMAIN rows :
               rows'[i] = IF i = req[r].id
                          THEN Overwritten(i, req[r].body) ELSE rows[i]]_vars

\* An Update answered 200 while another row exists.
C4_Witness ==
  /\ lastResp.op = "put"
  /\ lastResp.sent = <<200>>
  /\ lastResp.found
  /\ lastResp.mutated
  /\ Cardinality(DOMAIN rows) = 2

\* C5: once a Delete of an id was answered 200, no other Delete of it is
\* (of two concurrent ones exactly the one that found the row), the id is
\* never in the table again, and every Delete or GetById of it received
\* afterwards whose query succeeds is answered 404 and changes nothing.
C5_DeleteOnce ==
  /\ \A i \in Ids : del200[i] <= 1
  /\ \A i \in Ids : del200[i] >= 1 => i \notin DOMAIN rows
  /\ (lastResp.op \in {"delete", "get"} /\ lastResp.delSeen /\ lastResp.err = "")
       => (lastResp.sent = <<404>> /\ ~lastResp.mutated)
  /\ (lastResp.op = "delete" /\ lastResp.err = "")
       => /\ lastResp.sent = <<200>> <=> lastResp.found
          /\ lastResp.sent = <<404>> <=> ~lastResp.found

\* A second Delete of an id, received after the first was answered 200.
C5_Witness ==
  /\ lastResp.op = "delete"
  /\ lastResp.delSeen
  /\ lastResp.sent = <<404>>
  /\ del200[lastResp.id] = 1

\* C6: a List whose query succeeds is answered 200; with no row deleted it
\* has exactly one entry per INSERT that has taken effect (none before the
\* first), each under its own Id; and once every Create is answered, the
\* 201 responses are as many as those INSERTs.
C6_ListCount ==
  /\ (lastResp.op = "list" /\ lastResp.err = "")
       => /\ lastResp.sent = <<200>>
          /\ lastResp.ndel = 0 =>
               /\ Len(lastResp.rs) = lastResp.nins
               /\ \A i, j \in DOMAIN lastResp.rs :
                    i # j => lastResp.rs[i].Id # lastResp.rs[j].Id
               /\ \A i \in DOMAIN lastResp.rs : lastResp.rs[i].Id > 0
  /\ (\A r \in Slots : req[r].op # "post") => Len(issued) = nins

\* A List of two products.
C6_Witness ==
  /\ lastResp.op = "list"
  /\ lastResp.sent = <<200>>
  /\ lastResp.ndel = 0
  /\ Len(lastResp.rs) = 2
  /\ Len(issued) = 2

\* C7: POST /init-db is answered 200 and leaves the database and the table
\* existing, from any state, the database missing included.
C7_InitSucceeds ==
  lastResp.op = "init"
    => (lastResp.sent = <<200>> /\ dbExists /\ tableExists)

\* The status codes documented for each operation.
Documented(op) ==
  CASE op = "init" -> {200, 500}
    [] op = "list" -> {200, 500}
    [] op = "get" -> {200, 404, 500}
    [] op = "post" -> {201, 400, 500}
    [] op = "put" -> {200, 400, 404, 500}
    [] OTHER -> {200, 404, 500}

\* The position of a handler's query among its pool.query calls.
QueryIndex(resp) == IF variant = "part000" /\ resp.sql = "stmt" THEN 2 ELSE 1

\* C8: every request is answered exactly once, with a status documented
\* for its operation; when a query of it fails the answer is 500 with the
\* database's error message, the failed query is the last one the handler
\* issued, and the handler changed nothing.
C8_FailureIs500 ==
  lastResp.op # "none" =>
    /\ Len(lastResp.sent) = 1
    /\ lastResp.sent[1] \in Documented(lastResp.op)
    /\ lastResp.err # "" =>
         /\ lastResp.sent = <<500>>
         /\ lastResp.error = lastResp.err
         /\ lastResp.nq = QueryIndex(lastResp)
         /\ ~lastResp.mutated
    /\ lastResp.err = "" => 500 \notin Codes(lastResp)

\* A Delete answered 500 because the table does not exist.
C8_Witness ==
  /\ lastResp.op = "delete"
  /\ lastResp.err = "ER_NO_SUCH_TABLE"
  /\ lastResp.sent = <<500>>

\* The requests whose query holds a connection.
InFlight == {r \in Slots : req[r].pc \in {"run", "ret"} /\ req[r].conn > 0}

PoolInv ==
  /\ pool.n <= connectionLimit
  /\ Cardinality(InFlight) <= connectionLimit
  /\ \A r, t \in InFlight : r # t => req[r].conn # req[t].conn
  /\ \A r \in InFlight : \A k \in DOMAIN pool.free : pool.free[k] # req[r].conn
  /\ Len(pool.free) + Cardinality(InFlight) = pool.n
  /\ \A r \in Slots : req[r].pc = "wait" <=> \E k \in DOMAIN pool.queue : pool.queue[k] = r
  /\ pool.queue # <<>> => (pool.free = <<>> /\ pool.n = connectionLimit)
  /\ \A r \in Slots :
       req[r].res.err \notin {"POOL_NOCONNECTIONS", "POOL_ENQUEUELIMIT"}

\* C9: the queries in flight never exceed the pool's capacity, a connection
\* serves one query at a time and is released when it completes, a request
\* that finds every connection busy waits and is never rejected, and every
\* waiting request is eventually given a connection.
C9_PoolBounded ==
  /\ []PoolInv
  /\ \A r \in Slots : (req[r].pc = "wait") ~> (req[r].pc = "run")

\* Every connection busy and a request waiting.
C9_Witness ==
  /\ Len(pool.queue) >= 1
  /\ Cardinality(InFlight) = connectionLimit

\* C10: in the part_000 build no product statement is answered by the
\* server with "No database selected".
C10_DatabaseSelected ==
  \A r \in Slots : req[r].res.err # "ER_NO_DB_ERROR"

====
